---- MODULE Spec2Model ----
(***************************************************************************)
(* Real-time windowed classification pipeline of StreamPoseML:             *)
(*   - MLFlowClient (stream_pose_ml/ml_flow_client.py): the frame window   *)
(*     (a deque with maxlen), the keypoint pipeline;                       *)
(*   - PoserApp and the socket handlers (pose_parser/api/app.py);          *)
(*   - PoserClient, which set_model constructs, after the specification.   *)
(* Python values are encoded as records [type, repr] so that values of     *)
(* different Python types can be compared.                                 *)
(***************************************************************************)
EXTENDS Integers, Sequences, FiniteSets, TLC

\* ---------------------------------------------------------------- bounds
MaxObs == 4          \* observations (socket events) handled in one run
MaxFrameWindow == 2  \* largest frame_window of a client handed to set_poser_client
MaxSetups == 2       \* configuration calls (set_poser_client, set_actuator, set_model)
MaxStream == 12      \* 'keypoints' events of one streaming session after set_model
MaxPairs == 3        \* annotation files found by create_video_annotation_map
MaxCalls == 2        \* generate_dataset_from_map / merge_segmented_data calls

\* ------------------------------------------------------- Python values
PyNone == [type |-> "NoneType", repr |-> "None"]
PyTrue == [type |-> "bool", repr |-> "True"]
PyFalse == [type |-> "bool", repr |-> "False"]
PyStr(s) == [type |-> "str", repr |-> s]

PyFloat(r) == [type |-> "float", repr |-> r]
PyList(r) == [type |-> "list", repr |-> r]

\* Python truthiness, as used by `if x`, `not x`, `x and y`, bool(x), for the
\* built-in types whose repr decides the answer: None, False, a zero number
\* and an empty string or container are false; any other value of these
\* types, and a function, are true.  A complex number is zero when both of
\* its parts are zero of either sign.  The operator is not defined for a
\* value of any other type (a range, an instance of a class with its own
\* __bool__ or __len__, a numpy value): no such value occurs in the model.
Truthy(v) ==
    CASE v.type = "NoneType" -> FALSE
      [] v.type = "bool" -> v.repr = "True"
      [] v.type = "str" -> v.repr # ""
      [] v.type = "int" -> v.repr # "0"
      [] v.type = "float" -> v.repr \notin {"0.0", "-0.0"}
      [] v.type = "complex" -> v.repr \notin {"0j", "-0j", "(-0+0j)", "(-0-0j)"}
      [] v.type = "list" -> v.repr # "[]"
      [] v.type = "tuple" -> v.repr # "()"
      [] v.type = "dict" -> v.repr # "{}"
      [] v.type = "set" -> v.repr # "set()"
      [] v.type = "frozenset" -> v.repr # "frozenset()"
      [] v.type = "bytes" -> v.repr # "b''"
      [] v.type = "bytearray" -> v.repr # "bytearray(b'')"
      [] v.type = "function" -> TRUE

\* bool(x)
PyBool(v) == IF Truthy(v) THEN PyTrue ELSE PyFalse

\* Values a prediction function may return: booleans, labels, None, scores
\* and lists of predictions.
PredictReturns ==
    {PyTrue, PyFalse, PyStr("squat"), PyNone, PyFloat("0.0"), PyList("[]"),
     PyList("[0]")}

Sessions == {"s1", "s2"}

\* --------------------------------------------------------- observations
\* A keypoints payload is a dict; the "landmarks" key may be absent, may hold
\* an empty list, or a list of poses.  A pose is identified by the session
\* that sent it and the arrival number of the observation (0: a second pose
\* detected in the same image).
Pose(s, n) == <<s, n>>

FramePayload(s, n) == [image |-> <<Pose(s, n)>>]

Payloads(s, n) ==
    { FramePayload(s, n),
      [landmarks |-> <<>>],
      [landmarks |-> <<Pose(s, n), Pose(s, 0)>>] }

\* MediaPipeClient.serialize_pose_landmarks: the canonical joint-position
\* record of one pose (a pure function of the pose).
serialize_pose_landmarks(pose_landmarks) == <<"joints", pose_landmarks>>

\* ----------------------------------------------------------- MLFlowClient
\* A list that is never trimmed, in place of the bounded deque.
deque_append_unbounded(frames, maxlen, x) == Append(frames, x)

\* collections.deque(maxlen=n).append(x): append on the right; when the deque
\* is at maxlen the leftmost element is discarded.
deque_append(frames, maxlen, x) ==
    IF maxlen = 0 THEN <<>>
    ELSE IF Len(frames) >= maxlen
         THEN Append(SubSeq(frames, Len(frames) - maxlen + 2, Len(frames)), x)
         ELSE Append(frames, x)

\* MLFlowClient.__init__
MLFlowClient(frame_window, data_transformer, predict_fn, input_example) ==
    [ frame_window |-> frame_window,
      transformer |-> data_transformer,
      maxlen |-> frame_window,
      frames |-> <<>>,
      current_classification |-> PyNone,
      predict_fn |-> predict_fn,
      input_columns |-> input_example.columns ]

\* The window rebuilt as a new deque on every push, without its maxlen
\* (maxlen -1 stands for None).
update_frame_data_rebuilds_deque(self, keypoint_results) ==
    IF "landmarks" \in DOMAIN keypoint_results
       /\ Len(keypoint_results.landmarks) # 0
    THEN LET frame_data ==
               [ sequence_id |-> PyNone,
                 sequence_source |-> "web",
                 frame_number |-> PyNone,
                 image_dimensions |-> PyNone,
                 joint_positions |->
                     serialize_pose_landmarks(keypoint_results.landmarks[1]) ]
         IN [self EXCEPT !.frames = Append(self.frames, frame_data), !.maxlen = -1]
    ELSE self

\* The append moved out of the landmarks test: every observation is buffered.
update_frame_data_append_always(self, keypoint_results) ==
    LET base == [ sequence_id |-> PyNone, sequence_source |-> "web",
                  frame_number |-> PyNone, image_dimensions |-> PyNone ]
        frame_data ==
            IF "landmarks" \in DOMAIN keypoint_results
               /\ Len(keypoint_results.landmarks) # 0
            THEN [ sequence_id |-> PyNone, sequence_source |-> "web",
                   frame_number |-> PyNone, image_dimensions |-> PyNone,
                   joint_positions |->
                       serialize_pose_landmarks(keypoint_results.landmarks[1]) ]
            ELSE base
    IN [self EXCEPT !.frames = deque_append(self.frames, self.maxlen, frame_data)]

\* MLFlowClient.update_frame_data_from_js_client_keypoints: the client after
\* the call (the call returns self.frames of that client).
update_frame_data_from_js_client_keypoints(self, keypoint_results) ==
    IF "landmarks" \in DOMAIN keypoint_results
       /\ Len(keypoint_results.landmarks) # 0
    THEN LET frame_data ==
               [ sequence_id |-> PyNone,
                 sequence_source |-> "web",
                 frame_number |-> PyNone,
                 image_dimensions |-> PyNone,
                 joint_positions |->
                     serialize_pose_landmarks(keypoint_results.landmarks[1]) ]
         IN [self EXCEPT !.frames = deque_append(self.frames, self.maxlen, frame_data)]
    ELSE self

\* Outcome of one run_keypoint_pipeline call: the client afterwards, the
\* returned value, the exception that left the call ("none" when it returned),
\* and how many transforms / predictions were started, on which sequence.
PipelineResult(client, ret, raised, transforms, predicts, sequence) ==
    [ client |-> client, ret |-> ret, raised |-> raised,
      transforms |-> transforms, predicts |-> predicts, sequence |-> sequence ]

\* The pipeline with the fullness test written `>`: a bounded window never
\* passes it.
run_keypoint_pipeline_never_full(self, keypoints, env) ==
    LET pushed == update_frame_data_from_js_client_keypoints(self, keypoints)
        current_frames == pushed.frames
    IN IF Len(current_frames) > pushed.frame_window
       THEN IF pushed.transformer = "None"
            THEN PipelineResult(pushed, PyNone, "AttributeError", 0, 0, current_frames)
            ELSE IF ~env.transform_ok
            THEN PipelineResult(pushed, PyNone, "TransformError", 1, 0, current_frames)
            ELSE IF pushed.predict_fn = "None"
            THEN PipelineResult(pushed, PyNone, "none", 1, 0, current_frames)
            ELSE IF env.predict = "raise"
            THEN PipelineResult(pushed, PyNone, "PredictError", 1, 1, current_frames)
            ELSE PipelineResult(
                     [pushed EXCEPT !.current_classification = PyBool(env.ret)],
                     PyNone, "none", 1, 1, current_frames)
       ELSE PipelineResult(pushed, PyNone, "none", 0, 0, <<>>)

\* The pipeline with the window reset when the transformer fails.
run_keypoint_pipeline_reset_on_failure(self, keypoints, env) ==
    LET pushed == update_frame_data_from_js_client_keypoints(self, keypoints)
        current_frames == pushed.frames
    IN IF Len(current_frames) = pushed.frame_window
       THEN IF pushed.transformer = "None"
            THEN PipelineResult(pushed, PyNone, "AttributeError", 0, 0, current_frames)
            ELSE IF ~env.transform_ok
            THEN PipelineResult([pushed EXCEPT !.frames = <<>>], PyNone,
                                "TransformError", 1, 0, current_frames)
            ELSE IF pushed.predict_fn = "None"
            THEN PipelineResult(pushed, PyNone, "none", 1, 0, current_frames)
            ELSE IF env.predict = "raise"
            THEN PipelineResult(pushed, PyNone, "PredictError", 1, 1, current_frames)
            ELSE PipelineResult(
                     [pushed EXCEPT !.current_classification = PyBool(env.ret)],
                     PyNone, "none", 1, 1, current_frames)
       ELSE PipelineResult(pushed, PyNone, "none", 0, 0, <<>>)

\* The pipeline without the `if not self.predict_fn: return` test: a missing
\* prediction function is called and the call raises TypeError.
run_keypoint_pipeline_no_predict_test(self, keypoints, env) ==
    LET pushed == update_frame_data_from_js_client_keypoints(self, keypoints)
        current_frames == pushed.frames
    IN IF Len(current_frames) = pushed.frame_window
       THEN IF pushed.transformer = "None"
            THEN PipelineResult(pushed, PyNone, "AttributeError", 0, 0, current_frames)
            ELSE IF ~env.transform_ok
            THEN PipelineResult(pushed, PyNone, "TransformError", 1, 0, current_frames)
            ELSE IF pushed.predict_fn = "None"
            THEN PipelineResult(pushed, PyNone, "TypeError", 1, 0, current_frames)
            ELSE IF env.predict = "raise"
            THEN PipelineResult(pushed, PyNone, "PredictError", 1, 1, current_frames)
            ELSE PipelineResult(
                     [pushed EXCEPT !.current_classification = PyBool(env.ret)],
                     PyNone, "none", 1, 1, current_frames)
       ELSE PipelineResult(pushed, PyNone, "none", 0, 0, <<>>)

\* MLFlowClient.run_keypoint_pipeline.  env.transform_ok: the transformer
\* produces the requested columns; env.predict: the value the prediction
\* function returns, or "raise".
run_keypoint_pipeline(self, keypoints, env) ==
    LET pushed == update_frame_data_from_js_client_keypoints(self, keypoints)
        current_frames == pushed.frames
    IN IF Len(current_frames) = pushed.frame_window
       THEN IF pushed.transformer = "None"
            THEN PipelineResult(pushed, PyNone, "AttributeError", 0, 0, current_frames)
            ELSE IF ~env.transform_ok
            THEN PipelineResult(pushed, PyNone, "TransformError", 1, 0, current_frames)
            ELSE IF pushed.predict_fn = "None"
            THEN PipelineResult(pushed, PyNone, "none", 1, 0, current_frames)
            ELSE IF env.predict = "raise"
            THEN PipelineResult(pushed, PyNone, "PredictError", 1, 1, current_frames)
            ELSE PipelineResult(
                     [pushed EXCEPT !.current_classification = PyBool(env.ret)],
                     PyNone, "none", 1, 1, current_frames)
       ELSE PipelineResult(pushed, PyNone, "none", 0, 0, <<>>)

\* ------------------------------------------------------------ PoserClient
\* poser_client.PoserClient, the client set_model constructs.  The class is
\* not among the sources; it is modelled as the Pipeline Orchestrator of the
\* specification (sections 3, 4.1, 4.4, 4.6 and 7): a window of capacity
\* frame_window, empty at construction, no classification yet, the trained
\* model's prediction function and the transformer bound.
PoserClient(mediapipe_client_instance, trained_model, data_transformer, frame_window) ==
    [ frame_window |-> frame_window,
      transformer |-> data_transformer,
      maxlen |-> frame_window,
      frames |-> <<>>,
      current_classification |-> PyNone,
      predict_fn |-> trained_model,
      input_columns |-> <<>>,
      mpc |-> mediapipe_client_instance ]

\* Frame Window push (section 4.1): an observation without landmarks is
\* dropped; otherwise its frame is appended, evicting the oldest at capacity.
PoserClient_push(self, keypoint_results) ==
    IF "landmarks" \in DOMAIN keypoint_results
       /\ Len(keypoint_results.landmarks) # 0
    THEN LET frame ==
               [ sequence_id |-> PyNone,
                 sequence_source |-> "web",
                 frame_number |-> PyNone,
                 image_dimensions |-> PyNone,
                 joint_positions |->
                     serialize_pose_landmarks(keypoint_results.landmarks[1]) ]
         IN [self EXCEPT !.frames = deque_append(self.frames, self.maxlen, frame)]
    ELSE self

\* The orchestrator's transition rule (sections 4.6 and 7): a dropped
\* observation and a window that is not full produce no result; on a full
\* window the sequence is transformed and classified; a transformation or
\* classification failure is local to the window (no result, nothing
\* raised); a successful non-null classification is recorded as returned and
\* a result is handed back.
PoserClient_run_keypoint_pipeline(self, keypoints, env) ==
    LET pushed == PoserClient_push(self, keypoints)
        dropped == "landmarks" \notin DOMAIN keypoints
                   \/ Len(keypoints.landmarks) = 0
    IN IF dropped \/ Len(pushed.frames) # pushed.frame_window
       THEN PipelineResult(pushed, PyNone, "none", 0, 0, <<>>)
       ELSE IF ~env.transform_ok
       THEN PipelineResult(pushed, PyNone, "none", 1, 0, pushed.frames)
       ELSE IF env.predict = "raise" \/ env.ret = PyNone
       THEN PipelineResult(pushed, PyNone, "none", 1, 1, pushed.frames)
       ELSE PipelineResult([pushed EXCEPT !.current_classification = env.ret],
                           PyTrue, "none", 1, 1, pushed.frames)

\* pc.poser_client.run_keypoint_pipeline(payload): the method of the class of
\* the bound client.
pc_run_keypoint_pipeline(self, keypoints, env) ==
    IF "mpc" \in DOMAIN self
    THEN PoserClient_run_keypoint_pipeline(self, keypoints, env)
    ELSE run_keypoint_pipeline(self, keypoints, env)

\* ---------------------------------------------- VideoDataDataloopMergeService
\* A Python dict from annotation path to video path is a sequence of
\* <<key, value>> pairs in insertion order; merged_data and segmented data
\* (label -> list of examples) are functions on the labels they hold.
DictKeys(dict) == {dict[i][1] : i \in 1..Len(dict)}

\* dict[key] = value: a new key goes last, an existing key keeps its place.
DictSet(dict, key, value) ==
    IF key \in DictKeys(dict)
    THEN [i \in 1..Len(dict) |->
             IF dict[i][1] = key THEN <<key, value>> ELSE dict[i]]
    ELSE Append(dict, <<key, value>>)

EmptyDict == <<>>

\* VideoDataDataloopMergeService.__init__
VideoDataDataloopMergeService ==
    [ annotation_video_map |-> EmptyDict,
      video_annotation_map |-> EmptyDict,
      merged_data |-> EmptyDict ]

\* The inner loop of create_video_annotation_map: the videos whose path
\* contains the annotation's source filename.
RECURSIVE map_videos(_, _, _, _, _)
map_videos(self, annotation_path, video_files, j, match) ==
    IF j > Len(video_files) THEN self
    ELSE LET video_path == video_files[j]
             next ==
                 IF <<annotation_path, video_path>> \in match
                 THEN [self EXCEPT
                          !.annotation_video_map =
                              DictSet(@, annotation_path, video_path),
                          !.video_annotation_map =
                              DictSet(@, video_path, annotation_path)]
                 ELSE self
         IN map_videos(next, annotation_path, video_files, j + 1, match)

\* create_video_annotation_map: the outer loop over the annotation files.
RECURSIVE create_video_annotation_map(_, _, _, _, _)
create_video_annotation_map(self, annotation_files, video_files, i, match) ==
    IF i > Len(annotation_files) THEN self
    ELSE create_video_annotation_map(
             map_videos(self, annotation_files[i], video_files, 1, match),
             annotation_files, video_files, i + 1, match)

\* merge_segmented_data with the label's list reset on every merge.
merge_segmented_data_resets(merged_data, segmented_data) ==
    [ label \in DOMAIN merged_data \cup DOMAIN segmented_data |->
        IF label \in DOMAIN segmented_data
        THEN segmented_data[label]
        ELSE merged_data[label] ]

\* merge_segmented_data: merged_data after the call.
merge_segmented_data(merged_data, segmented_data) ==
    [ label \in DOMAIN merged_data \cup DOMAIN segmented_data |->
        IF label \in DOMAIN segmented_data
        THEN (IF label \notin DOMAIN merged_data \/ merged_data[label] = <<>>
              THEN <<>> ELSE merged_data[label]) \o segmented_data[label]
        ELSE merged_data[label] ]

\* Outcome of generate_dataset_from_map: the service afterwards, the
\* annotations processed in order, the files written, the exception raised.
GenerateResult(self, processed, writes, raised) ==
    [ self |-> self, processed |-> processed, writes |-> writes, raised |-> raised ]

\* The loop of generate_dataset_from_map from the i-th pair of the map on.
\* limit is <<>> for None, <<L>> for the integer L.
RECURSIVE generate_loop(_, _, _, _, _, _, _)
generate_loop(self, i, processed, writes, limit, write_to_file, files) ==
    IF i > Len(self.annotation_video_map)
    THEN GenerateResult(self, processed, writes, "none")
    ELSE IF limit # <<>> /\ Len(processed) = limit[1]
    THEN GenerateResult(self, processed, writes, "none")
    ELSE LET annotation == self.annotation_video_map[i][1]
             out == files[annotation]
         IN IF out.error # "none"
            THEN GenerateResult(self, processed, writes,
                                "VideoDataDataloopMergeServiceError")
            ELSE generate_loop(
                     [self EXCEPT !.merged_data =
                          merge_segmented_data(self.merged_data, out.data)],
                     i + 1, Append(processed, annotation),
                     IF write_to_file THEN writes + 1 ELSE writes,
                     limit, write_to_file, files)

\* generate_dataset_from_map
generate_dataset_from_map(self, limit, write_to_file, files) ==
    generate_loop(self, 1, <<>>, 0, limit, write_to_file, files)

\* --------------------------------------------------------------- PoserApp
VARIABLES
    poser_client,   \* pc.poser_client: <<>> for None, <<client>> when bound
    actuator,       \* pc.actuator: "unset" until set_actuator creates the attribute
    nobs,           \* number of socket events handled so far
    nsetups,        \* number of configuration calls made so far
    hist,           \* payloads with non-empty landmarks offered to the bound client
    last,           \* the most recent call: its inputs and what it did
    vdms,           \* a VideoDataDataloopMergeService object
    disk,           \* what each annotation file on disk yields when processed
    gen             \* what the most recent call on vdms did

vars == <<poser_client, actuator, nobs, nsetups, hist, last, vdms, disk, gen>>

NoModelSet == [event |-> "frame_result", error |-> "No model set"]

\* The return_payload of handle_keypoints / handle_frame.
ClassificationEvent(classification, speed, actuation) ==
    [ event |-> "frame_result", classification |-> classification,
      speed |-> speed, actuation |-> actuation ]

\* Effects of one handler call.
Effects(client, emits, sends, receives, raised, transforms, predicts, sequence) ==
    [ poser_client |-> client, emits |-> emits, sends |-> sends,
      receives |-> receives, raised |-> raised, transforms |-> transforms,
      predicts |-> predicts, sequence |-> sequence ]

\* What the environment decides during one call: whether the transformer
\* succeeds, whether the prediction function returns (and what) or raises,
\* the measured processing time, and the actuator's answer.
Env(transform_ok, predict, ret, speed, device) ==
    [ transform_ok |-> transform_ok, predict |-> predict, ret |-> ret,
      speed |-> speed, device |-> device ]

Envs ==
    { Env(FALSE, "return", PyTrue, 1, "ack"),
      Env(TRUE, "raise", PyNone, 1, "ack"),
      Env(TRUE, "return", PyTrue, 0, "ack"),
      Env(TRUE, "return", PyTrue, 1, "raise") }
    \cup { Env(TRUE, "return", v, 1, "ack") : v \in PredictReturns }

\* The emit block run unconditionally.
emit_guard_dropped(results, current_classification) == TRUE

\* The emit guard of handle_keypoints:
\*   results and pc.poser_client.current_classification is not None
emit_guard(results, current_classification) ==
    Truthy(results) /\ current_classification # PyNone

\* handle_keypoints with the pipeline's exceptions swallowed and the emit
\* guard reduced to `current_classification is not None`.
keypoints_bound_swallow(pcl, act, payload, env) ==
    LET r == pc_run_keypoint_pipeline(pcl[1], payload, env)
        cl == <<r.client>>
    IN IF r.client.current_classification # PyNone
       THEN IF env.speed = 0
            THEN Effects(cl, <<>>, 0, 0, "ZeroDivisionError",
                         r.transforms, r.predicts, r.sequence)
            ELSE IF act = "unset"
            THEN Effects(cl, <<>>, 0, 0, "AttributeError",
                         r.transforms, r.predicts, r.sequence)
            ELSE IF env.device = "raise"
            THEN Effects(cl, <<>>, 1, 0, "ActuatorError",
                         r.transforms, r.predicts, r.sequence)
            ELSE Effects(cl,
                         <<ClassificationEvent(r.client.current_classification,
                                               env.speed, env.device)>>,
                         1, 1, "none", r.transforms, r.predicts, r.sequence)
       ELSE Effects(cl, <<>>, 0, 0, "none", r.transforms, r.predicts, r.sequence)

\* handle_keypoints, after the `pc.poser_client is None` test.
keypoints_bound(pcl, act, payload, env) ==
    LET r == pc_run_keypoint_pipeline(pcl[1], payload, env)
        cl == <<r.client>>
    IN IF r.raised # "none"
       THEN Effects(cl, <<>>, 0, 0, r.raised, r.transforms, r.predicts, r.sequence)
       ELSE IF emit_guard(r.ret, r.client.current_classification)
       THEN IF env.speed = 0
            THEN Effects(cl, <<>>, 0, 0, "ZeroDivisionError",
                         r.transforms, r.predicts, r.sequence)
            ELSE IF act = "unset"
            THEN Effects(cl, <<>>, 0, 0, "AttributeError",
                         r.transforms, r.predicts, r.sequence)
            ELSE IF env.device = "raise"
            THEN Effects(cl, <<>>, 1, 0, "ActuatorError",
                         r.transforms, r.predicts, r.sequence)
            ELSE Effects(cl,
                         <<ClassificationEvent(r.client.current_classification,
                                               env.speed, env.device)>>,
                         1, 1, "none", r.transforms, r.predicts, r.sequence)
       ELSE Effects(cl, <<>>, 0, 0, "none", r.transforms, r.predicts, r.sequence)

\* handle_keypoints without the `return` after the "No model set" emit: the
\* handler goes on to call run_keypoint_pipeline on None.
handle_keypoints_no_return(pcl, act, payload, env) ==
    IF pcl = <<>>
    THEN Effects(pcl, <<NoModelSet>>, 0, 0, "AttributeError", 0, 0, <<>>)
    ELSE keypoints_bound(pcl, act, payload, env)

\* handle_keypoints
handle_keypoints(pcl, act, payload, env) ==
    IF pcl = <<>>
    THEN Effects(pcl, <<NoModelSet>>, 0, 0, "none", 0, 0, <<>>)
    ELSE keypoints_bound(pcl, act, payload, env)

\* handle_frame: with a client bound, the handler calls pc.run_frame_pipeline,
\* which PoserApp does not define.
handle_frame(pcl, act, payload, env) ==
    IF pcl = <<>>
    THEN Effects(pcl, <<NoModelSet>>, 0, 0, "none", 0, 0, <<>>)
    ELSE Effects(pcl, <<>>, 0, 0, "AttributeError", 0, 0, <<>>)

HasLandmarks(payload) ==
    "landmarks" \in DOMAIN payload /\ payload.landmarks # <<>>

\* The record of one handler call.  Its inputs: the handler, the session,
\* the payload, whether a client was bound, the client before the call, and
\* whether the actuator device was failing during the call (device_fails:
\* a send would raise).  What it did: the effects e, and the outcome of the
\* transformer, of the prediction function and of the device, each "no" /
\* "unused" when the call never reached it.
Called(handler, sid, payload, bound, e, env) ==
    [ handler |-> handler, sid |-> sid, payload |-> payload, bound |-> bound,
      emits |-> e.emits, sends |-> e.sends, receives |-> e.receives,
      raised |-> e.raised, transforms |-> e.transforms, predicts |-> e.predicts,
      sequence |-> e.sequence, before |-> poser_client,
      transformed |-> IF e.transforms = 0 THEN "no"
                      ELSE IF env.transform_ok THEN "return" ELSE "raise",
      predicted |-> IF e.predicts = 1 THEN env.predict ELSE "no",
      ret |-> IF e.predicts = 1 /\ env.predict = "return" THEN env.ret ELSE PyNone,
      device_fails |-> env.device = "raise",
      device |-> IF e.sends = 0 THEN "unused" ELSE env.device ]

NoCall ==
    [ handler |-> "none", sid |-> "none", payload |-> [image |-> <<>>],
      bound |-> FALSE, emits |-> <<>>, sends |-> 0, receives |-> 0,
      raised |-> "none", transforms |-> 0, predicts |-> 0, sequence |-> <<>>,
      before |-> <<>>, transformed |-> "no", predicted |-> "no", ret |-> PyNone,
      device_fails |-> FALSE, device |-> "unused" ]

\* No call on the merge service yet.
NoMergeCall ==
    [ op |-> "none", ncalls |-> 0, limit |-> <<>>, write_to_file |-> FALSE,
      before |-> EmptyDict, map |-> EmptyDict, segmented |-> EmptyDict,
      processed |-> <<>>, writes |-> 0, raised |-> "none" ]

Init ==
    /\ poser_client = <<>>
    /\ actuator = "unset"
    /\ nobs = 0
    /\ nsetups = 0
    /\ hist = <<>>
    /\ last = NoCall
    /\ vdms = VideoDataDataloopMergeService
    /\ disk = <<>>
    /\ gen = NoMergeCall

\* A 'keypoints' event of session sid.
HandleKeypoints ==
    /\ nobs < MaxObs
    /\ \E sid \in Sessions, env \in Envs :
         \E payload \in Payloads(sid, nobs + 1) :
            LET e == handle_keypoints(poser_client, actuator, payload, env)
            IN /\ poser_client' = e.poser_client
               /\ last' = Called("keypoints", sid, payload, poser_client # <<>>, e, env)
               /\ hist' = IF poser_client # <<>> /\ HasLandmarks(payload)
                          THEN Append(hist, payload) ELSE hist
    /\ nobs' = nobs + 1
    /\ UNCHANGED <<actuator, nsetups, vdms, disk, gen>>

\* A 'frame' event of session sid.
HandleFrame ==
    /\ nobs < MaxObs
    /\ \E sid \in Sessions, env \in {Env(TRUE, "return", PyTrue, 1, "ack")} :
         \E payload \in {FramePayload(sid, nobs + 1)} :
            LET e == handle_frame(poser_client, actuator, payload, env)
            IN /\ poser_client' = e.poser_client
               /\ last' = Called("frame", sid, payload, poser_client # <<>>, e, env)
    /\ nobs' = nobs + 1
    /\ UNCHANGED <<actuator, nsetups, hist, vdms, disk, gen>>

\* PoserApp.set_poser_client, with a freshly constructed MLFlowClient.
SetPoserClient ==
    /\ nsetups < MaxSetups
    /\ \E fw \in 1..MaxFrameWindow, tr \in {"None", "transformer"},
          pf \in {"None", "predict_fn"} :
         poser_client' = <<MLFlowClient(fw, tr, pf, [columns |-> <<>>])>>
    /\ hist' = <<>>
    /\ nsetups' = nsetups + 1
    /\ last' = [NoCall EXCEPT !.handler = "set_poser_client"]
    /\ UNCHANGED <<actuator, nobs, vdms, disk, gen>>

\* PoserApp.set_actuator
SetActuator ==
    /\ nsetups < MaxSetups
    /\ \E a \in {"bluetooth_device", "other"} :
         actuator' = IF a = "bluetooth_device" THEN "bluetooth_device" ELSE actuator
    /\ nsetups' = nsetups + 1
    /\ last' = [NoCall EXCEPT !.handler = "set_actuator"]
    /\ UNCHANGED <<poser_client, nobs, hist, vdms, disk, gen>>

\* The frame_window that set_model passes to the client it constructs.
SetModelFrameWindow == 10

\* set_model that configures the client only when none is bound yet: a bound
\* client, with the frames it holds, is kept.
SetModelKeepsClient ==
    /\ nsetups < MaxSetups
    /\ \E data \in {[other |-> "x"], [filename |-> "model.pickle"]},
          loaded \in BOOLEAN, device_ok \in BOOLEAN :
         IF "filename" \notin DOMAIN data
         THEN /\ last' = [NoCall EXCEPT !.handler = "set_model", !.raised = "400"]
              /\ UNCHANGED <<poser_client, actuator, hist>>
         ELSE IF ~loaded
         THEN /\ last' = [NoCall EXCEPT !.handler = "set_model",
                                         !.raised = "FileNotFoundError"]
              /\ UNCHANGED <<poser_client, actuator, hist>>
         ELSE /\ poser_client' =
                     IF poser_client # <<>> THEN poser_client
                     ELSE <<PoserClient("mpc", "trained_model", "transformer",
                                        SetModelFrameWindow)>>
              /\ hist' = <<>>
              /\ IF device_ok
                 THEN /\ actuator' = "bluetooth_device"
                      /\ last' = [NoCall EXCEPT !.handler = "set_model"]
                 ELSE /\ actuator' = actuator
                      /\ last' = [NoCall EXCEPT !.handler = "set_model",
                                                 !.raised = "BluetoothError"]
    /\ nsetups' = nsetups + 1
    /\ UNCHANGED <<nobs, vdms, disk, gen>>

\* POST /set_model: without a filename the route answers 400 and changes
\* nothing; loading the pickle may fail, before anything is changed;
\* otherwise a newly constructed PoserClient replaces the bound client, and
\* then pc.set_actuator() constructs the BluetoothDevice, which may fail after
\* the client was replaced.
SetModel ==
    /\ nsetups < MaxSetups
    /\ \E data \in {[other |-> "x"], [filename |-> "model.pickle"]},
          loaded \in BOOLEAN, device_ok \in BOOLEAN :
         IF "filename" \notin DOMAIN data
         THEN /\ last' = [NoCall EXCEPT !.handler = "set_model", !.raised = "400"]
              /\ UNCHANGED <<poser_client, actuator, hist>>
         ELSE IF ~loaded
         THEN /\ last' = [NoCall EXCEPT !.handler = "set_model",
                                         !.raised = "FileNotFoundError"]
              /\ UNCHANGED <<poser_client, actuator, hist>>
         ELSE /\ poser_client' =
                     <<PoserClient("mpc", "trained_model", "transformer",
                                   SetModelFrameWindow)>>
              /\ hist' = <<>>
              /\ IF device_ok
                 THEN /\ actuator' = "bluetooth_device"
                      /\ last' = [NoCall EXCEPT !.handler = "set_model"]
                 ELSE /\ actuator' = actuator
                      /\ last' = [NoCall EXCEPT !.handler = "set_model",
                                                 !.raised = "BluetoothError"]
    /\ nsetups' = nsetups + 1
    /\ UNCHANGED <<nobs, vdms, disk, gen>>

Next ==
    \/ HandleKeypoints
    \/ HandleFrame
    \/ SetPoserClient
    \/ SetActuator
    \/ SetModel

Spec == Init /\ [][Next]_vars

\* ------------------------------------------- one session after set_model
\* A 'keypoints' event of a single streaming session: long enough a run for
\* the window of SetModelFrameWindow frames that set_model configures to fill
\* and slide.
HandleKeypointsStream ==
    /\ nobs < MaxStream
    /\ \E sid \in {"s1"},
          env \in {Env(TRUE, "return", PyStr("squat"), 1, "ack"),
                   Env(FALSE, "return", PyTrue, 1, "ack"),
                   Env(TRUE, "raise", PyNone, 1, "ack")} :
         \E payload \in Payloads(sid, nobs + 1) \ {FramePayload(sid, nobs + 1)} :
            LET e == handle_keypoints(poser_client, actuator, payload, env)
            IN /\ poser_client' = e.poser_client
               /\ last' = Called("keypoints", sid, payload, poser_client # <<>>, e, env)
               /\ hist' = IF poser_client # <<>> /\ HasLandmarks(payload)
                          THEN Append(hist, payload) ELSE hist
    /\ nobs' = nobs + 1
    /\ UNCHANGED <<actuator, nsetups, vdms, disk, gen>>

NextSetModel ==
    \/ SetModel
    \/ HandleKeypointsStream

SpecSetModel == Init /\ [][NextSetModel]_vars

\* ------------------------------------------------ the dataset merge run
Labels == {"a", "b"}

\* An example of a labelled clip: the annotation it comes from and its rank.
Example(annotation, k) == <<annotation, k>>

\* What an annotation file and its video can hold: no matching video, clips
\* of one label, clips of two labels, a label without examples, or a video
\* the video data service fails on.
Contents(annotation) ==
    { [video |-> FALSE, error |-> "none", data |-> EmptyDict],
      [video |-> TRUE, error |-> "none",
       data |-> [a |-> <<Example(annotation, 1)>>]],
      [video |-> TRUE, error |-> "none",
       data |-> [a |-> <<Example(annotation, 1), Example(annotation, 2)>>,
                 b |-> <<Example(annotation, 3)>>]],
      [video |-> TRUE, error |-> "none", data |-> [b |-> <<>>]],
      [video |-> TRUE, error |-> "VideoDataServiceError", data |-> EmptyDict] }

\* create_video_annotation_map on directories holding n annotation files,
\* each with at most one video of the same name.
CreateVideoAnnotationMap ==
    /\ disk = <<>>
    /\ gen.op = "none"
    /\ \E n \in 1..MaxPairs :
         \E files \in [1..n -> UNION {Contents(a) : a \in 1..n}] :
            /\ \A a \in 1..n : files[a] \in Contents(a)
            /\ disk' = files
            /\ vdms' = create_video_annotation_map(
                           vdms, [a \in 1..n |-> a], [v \in 1..n |-> v], 1,
                           {<<a, a>> : a \in {x \in 1..n : files[x].video}})
    /\ gen' = [NoMergeCall EXCEPT !.op = "create_video_annotation_map"]
    /\ UNCHANGED <<poser_client, actuator, nobs, nsetups, hist, last>>

\* generate_dataset_from_map(limit, write_to_file)
GenerateDatasetFromMap ==
    /\ gen.op # "none"
    /\ gen.ncalls < MaxCalls
    /\ \E limit \in {<<>>} \cup {<<L>> : L \in 0..(MaxPairs + 1)},
          write_to_file \in BOOLEAN :
         LET r == generate_dataset_from_map(vdms, limit, write_to_file, disk)
         IN /\ vdms' = r.self
            /\ gen' = [ op |-> "generate_dataset_from_map",
                        ncalls |-> gen.ncalls + 1,
                        limit |-> limit, write_to_file |-> write_to_file,
                        before |-> vdms.merged_data,
                        map |-> vdms.annotation_video_map,
                        segmented |-> EmptyDict,
                        processed |-> r.processed, writes |-> r.writes,
                        raised |-> r.raised ]
    /\ UNCHANGED <<poser_client, actuator, nobs, nsetups, hist, last, disk>>

\* merge_segmented_data(segmented_data), called on its own.
MergeSegmentedData ==
    /\ gen.op # "none"
    /\ gen.ncalls < MaxCalls
    /\ \E c \in Contents(0) :
         /\ c.video /\ c.error = "none"
         /\ vdms' = [vdms EXCEPT !.merged_data = merge_segmented_data(@, c.data)]
         /\ gen' = [ op |-> "merge_segmented_data",
                     ncalls |-> gen.ncalls + 1,
                     limit |-> <<>>, write_to_file |-> FALSE,
                     before |-> vdms.merged_data,
                     map |-> vdms.annotation_video_map,
                     segmented |-> c.data,
                     processed |-> <<>>, writes |-> 0, raised |-> "none" ]
    /\ UNCHANGED <<poser_client, actuator, nobs, nsetups, hist, last, disk>>

NextMerge ==
    \/ CreateVideoAnnotationMap
    \/ GenerateDatasetFromMap
    \/ MergeSegmentedData

SpecMerge == Init /\ [][NextMerge]_vars


\* ================================================================ claims
Min(a, b) == IF a <= b THEN a ELSE b

\* The last call was a 'keypoints' event handled with a client bound.
KeypointsOnClient == last.handler = "keypoints" /\ last.bound

\* The joint positions the k-th buffered observation must have produced.
ExpectedJoints(payload) == serialize_pose_landmarks(payload.landmarks[1])

\* C1: the window never holds more than frame_window frames, and it holds
\* exactly the last min(frame_window, n) of the n observations with non-empty
\* landmarks offered to the client so far, in arrival order.
C1_SlidingWindow ==
    poser_client # <<>> =>
        LET c == poser_client[1]
            k == Min(c.frame_window, Len(hist))
        IN /\ Len(c.frames) <= c.frame_window
           /\ Len(c.frames) = k
           /\ \A i \in 1..k :
                c.frames[i].joint_positions = ExpectedJoints(hist[Len(hist) - k + i])

\* More valid observations than the capacity have been pushed: the oldest
\* ones were evicted.
C1_Witness ==
    /\ poser_client # <<>>
    /\ Len(hist) > poser_client[1].frame_window
    /\ Len(poser_client[1].frames) = poser_client[1].frame_window
    /\ KeypointsOnClient /\ HasLandmarks(last.payload)

\* C2: an observation without a "landmarks" key, or with an empty landmarks
\* list, leaves the client's frame window exactly as it was.
C2_EmptyObservationKeepsWindow ==
    (KeypointsOnClient /\ ~HasLandmarks(last.payload)) =>
        poser_client[1].frames = last.before[1].frames

\* An empty observation arrived at a client whose window already held frames.
C2_Witness ==
    /\ KeypointsOnClient /\ ~HasLandmarks(last.payload)
    /\ Len(last.before[1].frames) >= 1

\* C3: an observation with missing or empty landmarks starts no transform, no
\* prediction, no actuation and emits no event, whatever the window's fill.
C3_EmptyObservationDroppedSilently ==
    (KeypointsOnClient /\ ~HasLandmarks(last.payload)) =>
        /\ last.transforms = 0
        /\ last.predicts = 0
        /\ last.sends = 0
        /\ last.emits = <<>>

\* C4: with no client bound, a 'keypoints' or 'frame' event emits exactly one
\* {error: "No model set"} event and does nothing else: nothing is buffered,
\* classified or sent to the actuator, and the handler returns normally.
C4_NoModelSet ==
    (last.handler \in {"keypoints", "frame"} /\ ~last.bound) =>
        /\ last.emits = <<NoModelSet>>
        /\ last.raised = "none"
        /\ last.transforms = 0 /\ last.predicts = 0
        /\ last.sends = 0 /\ last.receives = 0
        /\ poser_client = <<>>
        /\ hist = <<>>

\* A 'keypoints' event carrying landmarks was handled with no client bound.
C4_Witness ==
    /\ last.handler = "keypoints" /\ ~last.bound
    /\ HasLandmarks(last.payload)
    /\ last.emits = <<NoModelSet>>

\* C5: with a client bound, handle_keypoints emits one classification event
\* exactly when the observation left the window full and the prediction on it
\* returned a non-null classification, and never more than one event.
C5_EmitIffClassified ==
    KeypointsOnClient =>
        /\ Len(last.emits) <= 1
        /\ (/\ Len(last.emits) = 1
            /\ "classification" \in DOMAIN last.emits[1])
           <=> (/\ Len(poser_client[1].frames) = poser_client[1].frame_window
                /\ last.predicted = "return"
                /\ poser_client[1].current_classification # PyNone)

\* C6: when the prediction function raises on a full window, the handler does
\* not raise, emits one signal that is not a classification, and makes no
\* actuator send.
C6_PredictFailureContained ==
    (KeypointsOnClient /\ last.predicted = "raise") =>
        /\ last.raised = "none"
        /\ last.sends = 0
        /\ Len(last.emits) = 1
        /\ "classification" \notin DOMAIN last.emits[1]

\* C7: an actuator send happens only in a 'keypoints' call in which the
\* prediction over the full current window returned and left a non-null
\* classification; no send when the window is not full, or the
\* classification failed or was skipped.
C7_SendOnlyAfterClassification ==
    last.sends > 0 =>
        /\ KeypointsOnClient
        /\ last.predicted = "return"
        /\ last.sequence = poser_client[1].frames
        /\ Len(last.sequence) = poser_client[1].frame_window
        /\ poser_client[1].current_classification # PyNone

\* A 'keypoints' call whose classification failed, with an actuator bound:
\* no send was made.
C7_Witness ==
    /\ KeypointsOnClient
    /\ actuator = "bluetooth_device"
    /\ last.predicted = "raise"
    /\ last.sends = 0

\* The session that sent the pose buffered in a frame.
FrameSession(frame) == frame.joint_positions[2][1]

\* C8: the window an observation of a session is pushed into and classified
\* over holds only frames pushed by that same session.
C8_SessionOwnsWindow ==
    KeypointsOnClient =>
        /\ \A i \in 1..Len(poser_client[1].frames) :
             FrameSession(poser_client[1].frames[i]) = last.sid
        /\ \A i \in 1..Len(last.sequence) :
             FrameSession(last.sequence[i]) = last.sid

\* The last call ran the pipeline of a client without a prediction function
\* on a window that was full after the push.
NoPredictFnFullWindow ==
    /\ KeypointsOnClient
    /\ last.before[1].predict_fn = "None"
    /\ Len(poser_client[1].frames) = poser_client[1].frame_window

\* C10 as stated: on a client without a prediction function, every call on a
\* full window returns without raising, leaves current_classification as it
\* was, emits no event and makes no actuator send.
C10_FullWindowNeverRaises ==
    NoPredictFnFullWindow =>
        /\ last.raised = "none"
        /\ poser_client[1].current_classification
               = last.before[1].current_classification
        /\ last.emits = <<>>
        /\ last.sends = 0

\* C10 amended: on a client without a prediction function, every call on a
\* full window starts no prediction, leaves current_classification as it
\* was, emits no event and makes no actuator send; and it returns without
\* raising unless the transform, which runs before the predict_fn test,
\* raised (no transformer bound, or the transformer failed).
C10_NoPredictFnShortCircuits ==
    NoPredictFnFullWindow =>
        /\ last.predicts = 0
        /\ poser_client[1].current_classification
               = last.before[1].current_classification
        /\ last.emits = <<>>
        /\ last.sends = 0
        /\ last.raised =
               (IF last.before[1].transformer = "None" THEN "AttributeError"
                ELSE IF last.transformed = "raise" THEN "TransformError"
                ELSE "none")

\* A full window was transformed on a client without a prediction function,
\* and the call returned at the predict_fn test.
C10_Witness ==
    /\ NoPredictFnFullWindow
    /\ last.transformed = "return"
    /\ last.raised = "none"

\* The window the bound client must hold: the last min(frame_window, n) of
\* the n valid observations offered to it, as frames.
ExpectedFrame(payload) ==
    [ sequence_id |-> PyNone, sequence_source |-> "web", frame_number |-> PyNone,
      image_dimensions |-> PyNone, joint_positions |-> ExpectedJoints(payload) ]

ExpectedWindow ==
    LET k == Min(poser_client[1].frame_window, Len(hist))
    IN [i \in 1..k |-> ExpectedFrame(hist[Len(hist) - k + i])]

\* A 'keypoints' event is handled in this step.
KeypointsStep == nobs' = nobs + 1 /\ last'.handler = "keypoints" /\ last'.bound

\* C11, the failed window: the client stays bound, its window is what the push
\* left, its classification is untouched, and nothing is predicted, emitted or
\* sent.
C11_FailedWindow ==
    (KeypointsStep /\ last'.raised = "TransformError") =>
        /\ poser_client' # <<>>
        /\ poser_client'[1].frames = ExpectedWindow'
        /\ Len(poser_client'[1].frames) = poser_client'[1].frame_window
        /\ poser_client'[1].current_classification
               = poser_client[1].current_classification
        /\ last'.predicts = 0
        /\ last'.emits = <<>>
        /\ last'.sends = 0

\* C11, the observation after a failed window: a valid one evicts the oldest
\* frame, and the new window goes through transform and prediction as usual.
C11_NextWindow ==
    (/\ last.handler = "keypoints" /\ last.raised = "TransformError"
     /\ KeypointsStep /\ HasLandmarks(last'.payload)) =>
        /\ poser_client'[1].frames
               = Append(Tail(poser_client[1].frames), ExpectedFrame(last'.payload))
        /\ last'.sequence = poser_client'[1].frames
        /\ last'.transforms = 1
        /\ (last'.raised = "none" /\ poser_client[1].predict_fn # "None")
               => last'.predicts = 1

\* C11: a transformer failure on a full window is local to that window: the
\* client stays bound with the window the push left, later valid observations
\* still evict the oldest frame and are classified, and the failed window
\* yields no prediction, event or actuator send.
C11_TransformFailureLocal == [][C11_FailedWindow /\ C11_NextWindow]_vars

\* The transformer failed on a full window that a valid observation had just
\* slid forward.
C11_Witness ==
    /\ KeypointsOnClient /\ HasLandmarks(last.payload)
    /\ last.raised = "TransformError"
    /\ Len(poser_client[1].frames) = poser_client[1].frame_window
    /\ Len(hist) > poser_client[1].frame_window

\* C12: when the classification succeeded and the actuator device fails on
\* the command for that window, the classification event is still emitted,
\* and carries the actuation failure.
C12_ClassificationSurvivesActuatorFailure ==
    (/\ KeypointsOnClient
     /\ last.predicted = "return"
     /\ poser_client[1].current_classification # PyNone
     /\ actuator = "bluetooth_device"
     /\ last.device_fails) =>
        /\ Len(last.emits) = 1
        /\ "classification" \in DOMAIN last.emits[1]
        /\ last.emits[1].classification = poser_client[1].current_classification
        /\ last.emits[1].actuation # "ack"

\* C13: once frame_window valid observations have arrived, every valid
\* observation runs the classification step exactly once, over exactly the
\* frame_window most recent valid frames in arrival order (with frame_window
\* = 1, from the first valid observation on); with a transformer that
\* succeeds and a prediction function bound, that is exactly one prediction.
C13_ValidObservationClassified ==
    (/\ KeypointsOnClient /\ HasLandmarks(last.payload)
     /\ Len(hist) >= poser_client[1].frame_window) =>
        /\ last.sequence = ExpectedWindow
        /\ Len(last.sequence) = poser_client[1].frame_window
        /\ last.sequence[Len(last.sequence)] = ExpectedFrame(last.payload)
        /\ last.predicts <= 1
        /\ (/\ poser_client[1].transformer # "None"
            /\ poser_client[1].predict_fn # "None"
            /\ last.raised # "TransformError") => last.predicts = 1

\* A valid observation slid a full window forward and was predicted.
C13_Witness ==
    /\ KeypointsOnClient /\ HasLandmarks(last.payload)
    /\ Len(hist) > poser_client[1].frame_window
    /\ last.predicts = 1
    /\ last.predicted = "return"

\* The values Python's bool() maps to False.
Falsy ==
    {PyNone, PyFalse, PyStr(""), [type |-> "int", repr |-> "0"],
     [type |-> "float", repr |-> "0.0"], [type |-> "list", repr |-> "[]"]}

\* C14: the recorded (and emitted) classification is the value the
\* prediction function returned, boolean or label.
C14_ClassificationEqualsReturn ==
    (KeypointsOnClient /\ last.predicted = "return") =>
        /\ poser_client[1].current_classification = last.ret
        /\ \A i \in 1..Len(last.emits) :
             "classification" \in DOMAIN last.emits[i]
                 => last.emits[i].classification = last.ret

\* The configuration of a client.
Config(c) == <<c.frame_window, c.maxlen, c.input_columns, c.transformer, c.predict_fn>>

\* C16: a socket event handled on a bound client leaves the client's
\* frame_window, deque maxlen, input_columns, transformer and predict_fn as
\* they were (and maxlen equal to frame_window), and changes the window at
\* most by appending the frame of one valid observation, evicting the oldest
\* frame when the window was full.
C16_ConfigurationFixed ==
    (last.handler \in {"keypoints", "frame"} /\ last.bound) =>
        /\ poser_client # <<>>
        /\ Config(poser_client[1]) = Config(last.before[1])
        /\ poser_client[1].maxlen = poser_client[1].frame_window
        /\ LET old == last.before[1].frames
               new == poser_client[1].frames
           IN \/ new = old
              \/ /\ last.handler = "keypoints" /\ HasLandmarks(last.payload)
                 /\ \/ new = Append(old, ExpectedFrame(last.payload))
                    \/ /\ Len(old) = poser_client[1].frame_window
                       /\ new = Append(Tail(old), ExpectedFrame(last.payload))

\* A valid observation was pushed into a full window and classified.
C16_Witness ==
    /\ KeypointsOnClient /\ HasLandmarks(last.payload)
    /\ Len(last.before[1].frames) = poser_client[1].frame_window
    /\ last.predicts = 1
    /\ poser_client[1].frames # last.before[1].frames

\* C17: a 'frame' event handled with a client bound does not raise, emits at
\* most one frame_result, and never sends to the actuator.
C17_FrameHandledWithoutRaising ==
    (last.handler = "frame" /\ last.bound) =>
        /\ last.raised = "none"
        /\ Len(last.emits) <= 1
        /\ last.sends = 0

\* C18: every emitted classification comes from the prediction made while
\* handling that same observation, over the window as it was then; a call
\* whose prediction was skipped or failed emits no classification.
C18_NoStaleClassification ==
    \A i \in 1..Len(last.emits) :
        "classification" \in DOMAIN last.emits[i] =>
            /\ last.bound
            /\ last.predicted = "return"
            /\ last.sequence = poser_client[1].frames
            /\ last.emits[i].classification
                   = (IF last.ret \in Falsy THEN PyFalse ELSE PyTrue)

\* An earlier window left a classification behind, and the prediction of the
\* observation just handled failed or was skipped: nothing was emitted.
C18_Witness ==
    /\ KeypointsOnClient
    /\ last.before[1].current_classification # PyNone
    /\ last.predicted # "return"
    /\ last.emits = <<>>

\* Every frame of a window was produced by an observation offered to the
\* client since it was bound.
FramesSinceBound(frames) ==
    \A i \in 1..Len(frames) :
        \E j \in 1..Len(hist) : frames[i] = ExpectedFrame(hist[j])

\* C19: a successful set_model leaves a fresh client bound (empty window, no
\* classification, frame_window 10); no frame buffered before the call is in
\* a later window or classified sequence; until 10 valid observations have
\* arrived since the call nothing is transformed, predicted or emitted; and a
\* classification event is emitted only for a window of 10 such observations.
C19_SetModelStartsAfresh ==
    /\ (last.handler = "set_model" /\ last.raised = "none") =>
           /\ poser_client # <<>>
           /\ poser_client[1].frames = <<>>
           /\ poser_client[1].current_classification = PyNone
           /\ poser_client[1].frame_window = SetModelFrameWindow
           /\ poser_client[1].maxlen = SetModelFrameWindow
    /\ poser_client # <<>> => FramesSinceBound(poser_client[1].frames)
    /\ KeypointsOnClient =>
           /\ FramesSinceBound(last.sequence)
           /\ Len(hist) < SetModelFrameWindow =>
                  /\ last.emits = <<>>
                  /\ last.transforms = 0
                  /\ last.predicts = 0
                  /\ last.sequence = <<>>
           /\ \A i \in 1..Len(last.emits) :
                "classification" \in DOMAIN last.emits[i] =>
                    /\ Len(hist) >= SetModelFrameWindow
                    /\ Len(last.sequence) = SetModelFrameWindow
                    /\ last.sequence = ExpectedWindow

\* Events arrived before the last set_model call, and the tenth valid
\* observation since that call has just filled the new client's window and
\* produced the first classification event.
C19_Witness ==
    /\ KeypointsOnClient /\ HasLandmarks(last.payload)
    /\ nsetups = MaxSetups
    /\ poser_client[1].frame_window = SetModelFrameWindow
    /\ Len(hist) = SetModelFrameWindow
    /\ Len(poser_client[1].frames) = SetModelFrameWindow
    /\ last.sequence = poser_client[1].frames
    /\ hist[1].landmarks[1][2] > 1
    /\ Len(last.emits) = 1
    /\ "classification" \in DOMAIN last.emits[1]

\* The examples with a label in the first k pairs of the map the last
\* generate_dataset_from_map call iterated, in the map's order.
RECURSIVE ExamplesOfPairs(_, _)
ExamplesOfPairs(label, k) ==
    IF k = 0 THEN <<>>
    ELSE LET data == disk[gen.map[k][1]].data
         IN ExamplesOfPairs(label, k - 1)
                \o (IF label \in DOMAIN data THEN data[label] ELSE <<>>)

\* What a label's list held before the last call.
HeldBefore(label) ==
    IF label \in DOMAIN gen.before THEN gen.before[label] ELSE <<>>

\* C20: a generate_dataset_from_map(limit=L) call that returns has processed
\* the first min(L, n) of the n pairs of the map (all n for limit=None, L a
\* natural number), in the map's order, and merged_data holds for every label
\* what it held before followed by the examples of those pairs in processing
\* order; a merge_segmented_data call keeps every list it found and appends.
C20_LimitAndMergeOrder ==
    /\ (gen.op = "generate_dataset_from_map" /\ gen.raised = "none") =>
           LET n == Len(gen.map)
               k == IF gen.limit = <<>> THEN n ELSE Min(gen.limit[1], n)
           IN /\ gen.processed = [i \in 1..k |-> gen.map[i][1]]
              /\ gen.limit # <<>> => Len(gen.processed) <= gen.limit[1]
              /\ DOMAIN vdms.merged_data =
                     DOMAIN gen.before \cup
                     {l \in Labels :
                         \E i \in 1..k : l \in DOMAIN disk[gen.map[i][1]].data}
              /\ \A l \in DOMAIN vdms.merged_data :
                     vdms.merged_data[l] = HeldBefore(l) \o ExamplesOfPairs(l, k)
    /\ gen.op = "merge_segmented_data" =>
           /\ DOMAIN vdms.merged_data = DOMAIN gen.before \cup DOMAIN gen.segmented
           /\ \A l \in DOMAIN vdms.merged_data :
                  vdms.merged_data[l] =
                      HeldBefore(l)
                          \o (IF l \in DOMAIN gen.segmented
                              THEN gen.segmented[l] ELSE <<>>)

\* A call with a limit smaller than the map, on a service that already held
\* examples, processed exactly that many pairs and appended their examples.
C20_Witness ==
    /\ gen.op = "generate_dataset_from_map" /\ gen.raised = "none"
    /\ gen.limit # <<>>
    /\ gen.limit[1] >= 1
    /\ gen.limit[1] < Len(gen.map)
    /\ Len(gen.processed) = gen.limit[1]
    /\ \E l \in DOMAIN gen.before :
           /\ gen.before[l] # <<>>
           /\ Len(vdms.merged_data[l]) > Len(gen.before[l])
====
